---------------------------- MODULE Spec2Model ----------------------------
(***************************************************************************)
(* Morganite: a bounded-concurrency text-to-speech pipeline                *)
(* (src/src/main.rs) feeding a segmented MP3 writer (src/src/writer.rs).   *)
(*                                                                         *)
(* The specifications share the variables below:                          *)
(*   Spec        the per-file pipeline of main(): producer task, spawned  *)
(*               job tasks, bounded channel, reorder loop, writer.        *)
(*   SpecFair    Spec under a fair scheduler.                             *)
(*   SpecCrash   Spec with job tasks that may panic inside engine.synth.  *)
(*   SpecWriter  Mp3Splitter alone, driven by arbitrary write calls.      *)
(*   SpecNew     Mp3Splitter::new alone, on drawn arguments.              *)
(*                                                                         *)
(* A sample is represented by its provenance <<src, j>>: the j-th sample   *)
(* of the buffer src (a line index in Spec, a call number in SpecWriter).  *)
(* The numeric PCM value of a sample (f32_to_i16) is not modelled: the     *)
(* writer converts sample by sample and never drops or reorders by value.  *)
(***************************************************************************)
EXTENDS Naturals, Integers, Sequences, FiniteSets, TLC

VARIABLES
    \* ---- main.rs: per-file pipeline --------------------------------
    total_lines,    \* number of non-empty lines of the text file (jobs)
    concurrency,    \* cli.concurrency
    sem,            \* free permits of the Semaphore
    tx,             \* number of live Sender handles (tx and its clones)
    chan,           \* messages queued in the mpsc channel, oldest first
    rx,             \* TRUE while the Receiver exists
    line_index,     \* producer: next line to schedule
    producer,       \* producer task: "scheduling" | "joining" | "done" |
                    \* "failed" (returned Err)
    set,            \* JoinSet: per job, the spawned task's position and locals
    next_expected,  \* reorder loop: next position to hand to the writer
    buffer,         \* reorder loop: BTreeMap position -> audio
    consumer,       \* main task: "recv" | "join" | "finished" | "panicked"
    \* ---- writer.rs: Mp3Splitter -------------------------------------
    mp3,            \* fields of Mp3Splitter
    disk,           \* the File::create calls so far, each with its file
    finalized,      \* TRUE once finalize() consumed the writer
    ctor,           \* the call of Mp3Splitter::new: arguments and result
    \* ---- history (observations, never read by the program) ----------
    calls,          \* write calls made: position, samples, result
    hist            \* per-job counters and the consumer's stop reason

vars == << total_lines, concurrency, sem, tx, chan, rx, line_index, producer,
           set, next_expected, buffer, consumer, mp3, disk, finalized, ctor,
           calls, hist >>

pipeVars == << total_lines, concurrency, sem, tx, chan, rx, line_index,
               producer, set, next_expected, buffer, consumer, hist >>

-----------------------------------------------------------------------------
(* Bounds of the model.                                                    *)

MaxJobs == 6
SegmentFrames == 3
MaxFramesPerFile == 3
MaxCalls == 3
U64_MAX == 1
MaxFault == 7

-----------------------------------------------------------------------------
(* writer.rs                                                               *)

CHANNELS == 1

Min(a, b) == IF a < b THEN a ELSE b

(* Mp3Splitter::new after frames_for_duration returned frames_per_file.    *)
Mp3SplitterNew(channels, frames_per_file) ==
    [ index |-> 0, channels |-> channels,
      frames_per_file |-> frames_per_file, written_frames |-> 0,
      out |-> FALSE, enc |-> FALSE ]

(* No Mp3Splitter value exists (before, or after a failed, construction).  *)
NoWriter == Mp3SplitterNew(0, 0)

(* frames_for_duration, lines 21-27. ns is d.as_nanos(). The result is     *)
(* [ok, frames]; U64_MAX stands for u64::MAX in the range of the model.    *)
NANOS_PER_SEC == 1000000000

(* Mutant: the frame count is rounded up.                                  *)
FramesCeil(sample_rate, ns) ==
    IF (ns * sample_rate) % NANOS_PER_SEC = 0
    THEN (ns * sample_rate) \div NANOS_PER_SEC
    ELSE (ns * sample_rate) \div NANOS_PER_SEC + 1

FramesFloor(sample_rate, ns) == (ns * sample_rate) \div NANOS_PER_SEC

frames_for_duration(sample_rate, ns) ==
    LET frames == FramesFloor(sample_rate, ns) IN
    IF ~(frames > 0) THEN [ok |-> FALSE, frames |-> 0]
    ELSE IF ~(frames <= U64_MAX) THEN [ok |-> FALSE, frames |-> 0]
    ELSE [ok |-> TRUE, frames |-> frames]

(* Mp3Splitter::new, lines 49-76. config is [sample_rate, channels,        *)
(* valid]: valid is the outcome of config.validate() (shine_rs), which     *)
(* this repository does not define. The result is [res, w].                *)
Mp3Splitter_new(config, ns) ==
    IF ~config.valid THEN [res |-> "err", w |-> NoWriter]
    ELSE LET f == frames_for_duration(config.sample_rate, ns) IN
         IF ~f.ok THEN [res |-> "err", w |-> NoWriter]
         ELSE [res |-> "ok", w |-> Mp3SplitterNew(config.channels, f.frames)]

(* The constructor call behind a writer that is given its capacity.        *)
Built(channels) ==
    [ config |-> [sample_rate |-> 0, channels |-> channels, valid |-> TRUE],
      nanos |-> 0, res |-> "built" ]

(* A writer operation runs on a machine m: the Mp3Splitter fields, the     *)
(* disk, the result so far ("ok" | "err" | "internal" | "panic") and fuel, *)
(* which decides the I/O outcome: with fuel = k > 0 the k-th fallible op   *)
(* (file create, encoder new/encode/finish, write_all, flush) of the call   *)
(* fails; with fuel = 0 none does.                                         *)
Machine(w, d, fuel) == [ w |-> w, d |-> d, res |-> "ok", fuel |-> fuel ]

Fails(m) == m.fuel = 1
Tick(m) == [m EXCEPT !.fuel = IF @ > 0 THEN @ - 1 ELSE 0]
Err(m) == [m EXCEPT !.res = "err", !.fuel = 0]
Panic(m) == [m EXCEPT !.res = "panic", !.fuel = 0]
(* The error of line 88, told apart from the I/O errors.                   *)
Internal(m) == [m EXCEPT !.res = "internal", !.fuel = 0]

(* The file the open BufWriter/encoder belong to: the last one created.    *)
Cur(m) == Len(m.d)

(* An entry of disk: one File::create of open_next, with the index in its  *)
(* path, whether the file was created, what its encoder was fed, the       *)
(* encoder's state ("none" | "live" | "finished" | "finish_failed"), the   *)
(* number of tails written and whether the file was flushed.               *)
(* History kept with an entry: prior is how the entry before it stood     *)
(* when this one's file was created; late tells that frames were encoded   *)
(* into it while its encoder was not live.                                 *)
NoPrior == [enc |-> "first", tails |-> 0, flushed |-> FALSE]

NewFile(index) ==
    [ index |-> index, created |-> TRUE, frames |-> << >>, enc |-> "none",
      tails |-> 0, flushed |-> FALSE, over |-> FALSE,
      prior |-> NoPrior, late |-> FALSE ]

PriorOf(d) ==
    IF d = << >> THEN NoPrior
    ELSE [ enc |-> d[Len(d)].enc, tails |-> d[Len(d)].tails,
           flushed |-> d[Len(d)].flushed ]

(* Mutant: a failed File::create gives the index back.                     *)
CreateFailedRollback(m, path) ==
    Err([m EXCEPT !.w.index = path,
                  !.d = Append(@, [NewFile(path) EXCEPT !.created = FALSE])])

(* File::create failed, line 109: the error is returned, no file exists.   *)
CreateFailed(m, path) ==
    Err([m EXCEPT !.d = Append(@, [NewFile(path) EXCEPT !.created = FALSE])])

(* finish_current, lines 78-101.                                           *)
FinishTail(m) ==
    \* out.write_all(&tail), then out.flush(), then written_frames = 0
    IF Fails(m) THEN Err(m)
    ELSE LET m1 == Tick([m EXCEPT !.d[Cur(m)].tails = @ + 1]) IN
         IF Fails(m1) THEN Err(m1)
         ELSE Tick([m1 EXCEPT !.d[Cur(m)].flushed = TRUE,
                              !.w.written_frames = 0])

FinishFlush(m) ==
    \* no encoder was taken: only out.flush() and the reset
    IF Fails(m) THEN Err(m)
    ELSE Tick([m EXCEPT !.d[Cur(m)].flushed = TRUE, !.w.written_frames = 0])

FinishOpen(m) ==
    \* lines 84-100: what finish_current does past its early return
    IF ~m.w.out THEN Internal(m)    \* "encoder exists without writer"
    ELSE LET m1 == [m EXCEPT !.w.out = FALSE] IN
         IF m1.w.enc
         THEN LET m2 == [m1 EXCEPT !.w.enc = FALSE] IN
              IF Fails(m2)
              THEN Err([m2 EXCEPT !.d[Cur(m)].enc = "finish_failed"])
              ELSE FinishTail(Tick([m2 EXCEPT !.d[Cur(m)].enc = "finished"]))
         ELSE FinishFlush(m1)

(* Mutant: no early return for a writer with nothing open.                 *)
FinishUnguarded(m) == FinishOpen(m)

finish_current(m) ==
    IF ~m.w.out /\ ~m.w.enc THEN m ELSE FinishOpen(m)

(* open_next, lines 103-119.                                               *)
OpenIndex(w) == w.index

(* Mutant: self.out is set as soon as the file exists, before the encoder  *)
(* is created.                                                             *)
OpenFileOutFirst(m1) ==
    LET path == OpenIndex(m1.w)
        m2 == [m1 EXCEPT !.w.index = @ + 1] IN
    IF Fails(m2) THEN CreateFailed(m2, path)
    ELSE LET file == [NewFile(path) EXCEPT !.prior = PriorOf(m2.d)]
             m3 == Tick([m2 EXCEPT !.d = Append(@, file), !.w.out = TRUE]) IN
         IF Fails(m3) THEN Err(m3)
         ELSE Tick([m3 EXCEPT !.d[Len(m3.d)].enc = "live",
                              !.w.enc = TRUE, !.w.written_frames = 0])

(* Lines 106-118: what open_next does once finish_current returned Ok.     *)
OpenFile(m1) ==
    LET path == OpenIndex(m1.w)
        m2 == [m1 EXCEPT !.w.index = @ + 1] IN
    IF Fails(m2) THEN CreateFailed(m2, path)             \* File::create
    ELSE LET file == [NewFile(path) EXCEPT !.prior = PriorOf(m2.d)]
             m3 == Tick([m2 EXCEPT !.d = Append(@, file)]) IN
         IF Fails(m3) THEN Err(m3)                       \* Mp3Encoder::new
         ELSE Tick([m3 EXCEPT !.d[Len(m3.d)].enc = "live",
                              !.w.out = TRUE, !.w.enc = TRUE,
                              !.w.written_frames = 0])

(* Mutant: the next segment is opened over the current one, which is       *)
(* dropped unfinished.                                                     *)
OpenWithoutFinish(m) == OpenFile(m)

open_next(m) ==
    LET m1 == finish_current(m) IN
    IF m1.res # "ok" THEN m1 ELSE OpenFile(m1)

(* write_f32_interleaved, lines 123-179.                                   *)
(* Mutant: every chunk is cut from the start of the buffer.                *)
SliceFromStart(s, a, b) == [i \in 1..(b - a) |-> s[i]]

(* &samples[start..end], line 152.                                         *)
Slice(s, a, b) == [i \in 1..(b - a) |-> s[a + i]]

(* Mutant: the call's frames are taken whole, whatever the file has left.  *)
TakeAll(remaining, left) == left

TakeFrames(remaining, left) == Min(remaining, left)

(* Mutant: a full segment is rotated at once, also when the call is over.  *)
MustRotateEager(w, frame_offset, total_frames) ==
    w.written_frames = w.frames_per_file

MustRotate(w, frame_offset, total_frames) ==
    w.written_frames = w.frames_per_file /\ frame_offset < total_frames

RECURSIVE WriteLoop(_, _, _)
WriteChunk(m, samples, frame_offset) ==
    LET ch == m.w.channels
        total_frames == Len(samples) \div ch
        remaining == m.w.frames_per_file - m.w.written_frames
    IN
    IF m.res # "ok" \/ ~(frame_offset < total_frames) THEN m
    ELSE IF remaining = 0 THEN WriteLoop(open_next(m), samples, frame_offset)
    ELSE IF ~m.w.enc THEN Panic(m)              \* self.enc.as_mut().unwrap()
    ELSE
      LET take == TakeFrames(remaining, total_frames - frame_offset)
          pcm == Slice(samples, frame_offset * ch, (frame_offset + take) * ch)
          full == m.w.written_frames >= m.w.frames_per_file
      IN
      IF Fails(m) THEN Err(m)                           \* encode_interleaved
      ELSE LET dead == m.d[Cur(m)].enc # "live"
               m1 == Tick([m EXCEPT !.d[Cur(m)].frames = @ \o pcm,
                                    !.d[Cur(m)].over = @ \/ full,
                                    !.d[Cur(m)].late = @ \/ dead]) IN
           IF ~m1.w.out THEN Panic(m1)          \* self.out.as_mut().unwrap()
           ELSE IF Fails(m1) THEN Err(m1)               \* out.write_all(&b)
           ELSE LET m2 == Tick([m1 EXCEPT !.w.written_frames = @ + take])
                    off == frame_offset + take
                    m3 == IF MustRotate(m2.w, off, total_frames)
                          THEN open_next(m2) ELSE m2
                IN WriteLoop(m3, samples, off)

(* The while loop of lines 138-176, entered with the machine as it stands  *)
(* (its value is computed once).                                           *)
WriteLoop(entry, samples, frame_offset) ==
    CHOOSE r \in { WriteChunk(m, samples, frame_offset) : m \in {entry} } : TRUE

(* Mutant: the segment is opened before the buffer length is validated.    *)
WriteCheckLate(m, samples) ==
    LET ch == m.w.channels IN
    IF ~(ch = 1 \/ ch = 2) THEN Err(m)
    ELSE LET m1 == IF ~m.w.enc THEN open_next(m) ELSE m IN
         IF m1.res # "ok" THEN m1
         ELSE IF Len(samples) % ch # 0 THEN Err(m1)
         ELSE WriteLoop(m1, samples, 0)

(* Mutant: a full segment is rotated as soon as the next call begins,      *)
(* before the call's frames are looked at.                                 *)
WriteRotateAtStart(m, samples) ==
    LET ch == m.w.channels IN
    IF ~(ch = 1 \/ ch = 2) THEN Err(m)
    ELSE IF Len(samples) % ch # 0 THEN Err(m)
    ELSE LET m1 == IF ~m.w.enc \/ m.w.written_frames = m.w.frames_per_file
                   THEN open_next(m) ELSE m IN
         WriteLoop(m1, samples, 0)

write_f32_interleaved(m, samples) ==
    LET ch == m.w.channels IN
    IF ~(ch = 1 \/ ch = 2) THEN Err(m)
    ELSE IF Len(samples) % ch # 0 THEN Err(m)
    ELSE LET m1 == IF ~m.w.enc THEN open_next(m) ELSE m IN
         WriteLoop(m1, samples, 0)

(* write_f32_mono, lines 182-188.                                          *)
write_f32_mono(m, samples) ==
    IF m.w.channels # 1 THEN Err(m) ELSE write_f32_interleaved(m, samples)

(* The samples of buffer src: n samples, tagged with where they come from. *)
Audio(src, n) == [j \in 1..n |-> << src, j >>]

-----------------------------------------------------------------------------
(* main.rs, lines 194-290: the pipeline of one text file.                  *)

Jobs == 0 .. (total_lines - 1)

(* Values of cli.concurrency explored, and the job counts explored with    *)
(* each: fewer jobs where more of them run at once.                        *)
Concurrencies == {1, 2}
JobCounts(c) == 0 .. (MaxJobs - 3 * (c - 1))

(* Frames the synthesis of a line yields: a fixed function of the text.    *)
AudioFrames(line) == (line + 1) % 3

(* Semaphore::new(cli.concurrency * 2), line 210.                          *)
Permits(c) == c * 2

(* mpsc::channel::<Msg>(cli.concurrency * 2), line 211.                    *)
ChannelCapacity(c) == c * 2

NoTask == [ pc |-> "unspawned", current_audio_idx |-> 0, line |-> 0,
            res |-> "none" ]

(* Mutant: the producer spawns without waiting for a permit.               *)
CanAcquireAlways(s) == TRUE

(* A permit can be taken without waiting (acquire_owned, line 236).        *)
CanAcquire(s) == s > 0

(* What the producer moves into the task it spawns, lines 231-244.         *)
SpawnTask(i) ==
    [ pc |-> "synth", current_audio_idx |-> i, line |-> i, res |-> "none" ]

(* Mutant: the message is tagged with the producer's loop counter, read    *)
(* when the task sends, instead of the task's own copy.                    *)
MsgSharedIdx(t) ==
    [ idx |-> IF line_index < total_lines THEN line_index
              ELSE t.current_audio_idx,
      ok |-> (t.res = "ok"),
      samples |-> IF t.res = "ok" THEN Audio(t.line, AudioFrames(t.line))
                  ELSE << >>,
      took |-> t.line ]

(* The message a task sends, line 254: (current_audio_idx, res). The       *)
(* elapsed time of a synthesis stands for the call that produced it.       *)
Msg(t) ==
    [ idx |-> t.current_audio_idx, ok |-> (t.res = "ok"),
      samples |-> IF t.res = "ok" THEN Audio(t.line, AudioFrames(t.line))
                  ELSE << >>,
      took |-> t.line ]

(* Mutant: a failed result is replaced by silence instead of a panic.      *)
UnwrapOrSilence(msg) ==
    [ panic |-> FALSE,
      value |-> [samples |-> msg.samples, took |-> msg.took] ]

(* res.expect_or_log(..), line 274: panics on a failed result.             *)
Unwrap(msg) ==
    [ panic |-> ~msg.ok,
      value |-> [samples |-> msg.samples, took |-> msg.took] ]

(* Mutant: an empty queue is taken for a closed channel.                   *)
RecvNoneWhenEmpty(senders, queue) == queue = << >>

(* rx.recv() returns None: every Sender dropped and nothing queued.        *)
RecvNone(senders, queue) == senders = 0 /\ queue = << >>

(* Mutant: the reorder loop pops the smallest key it holds.                *)
NextKeyFirst(buf, ne) ==
    IF DOMAIN buf = {} THEN ne
    ELSE CHOOSE k \in DOMAIN buf : \A q \in DOMAIN buf : k <= q

(* The key the reorder loop removes next, line 277.                        *)
NextKey(buf, ne) == ne

Insert(buf, k, v) == [q \in DOMAIN buf \cup {k} |-> IF q = k THEN v ELSE buf[q]]
Remove(buf, k) == [q \in DOMAIN buf \ {k} |-> buf[q]]

(* The inner while loop of the reorder loop, lines 277-282. st holds the   *)
(* buffer, next_expected, the writer machine and the calls made.           *)
RECURSIVE Drain(_)
DrainNext(st) ==
    LET k == NextKey(st.buf, st.ne) IN
    IF st.m.res # "ok" \/ k \notin DOMAIN st.buf THEN st
    ELSE LET a == st.buf[k]
             m1 == write_f32_mono(st.m, a.samples)
             c == [ pos |-> st.ne, samples |-> a.samples, took |-> a.took,
                    res |-> m1.res ]
         IN Drain([ buf |-> Remove(st.buf, k),
                    ne |-> IF m1.res = "ok" THEN st.ne + 1 ELSE st.ne,
                    m |-> m1, calls |-> Append(st.calls, c) ])

(* The inner loop of lines 277-282, entered with the loop's state as it    *)
(* stands (its value is computed once).                                    *)
Drain(entry) == CHOOSE r \in { DrainNext(st) : st \in {entry} } : TRUE

InitPipeline ==
    /\ concurrency \in Concurrencies
    /\ total_lines \in JobCounts(concurrency)
    /\ sem = Permits(concurrency)
    /\ tx = 1
    /\ chan = << >>
    /\ rx = TRUE
    /\ line_index = 0
    /\ producer = "scheduling"
    /\ set = [p \in Jobs |-> NoTask]
    /\ next_expected = 0
    /\ buffer = << >>
    /\ consumer = "recv"
    /\ hist = [ synth_calls |-> [p \in Jobs |-> 0],
                send_calls |-> [p \in Jobs |-> 0],
                enqueued |-> [p \in Jobs |-> 0],
                received |-> {},
                stop |-> "none", failed_idx |-> -1 ]

Init ==
    /\ InitPipeline
    /\ mp3 = Mp3SplitterNew(CHANNELS, SegmentFrames)
    /\ ctor = Built(CHANNELS)
    /\ disk = << >>
    /\ finalized = FALSE
    /\ calls = << >>

writerVars == << mp3, disk, finalized, ctor, calls >>

(* Tasks that were spawned and have not finished: each owns a permit.      *)
Running == {p \in Jobs : set[p].pc \in {"synth", "send", "sent"}}

(* Producer loop body, lines 230-260: wait for a permit, clone tx, spawn.  *)
ProducerSpawn ==
    /\ producer = "scheduling"
    /\ line_index < total_lines
    /\ CanAcquire(sem)
    /\ sem' = sem - 1
    /\ tx' = tx + 1
    /\ set' = [set EXCEPT ![line_index] = SpawnTask(line_index)]
    /\ line_index' = line_index + 1
    /\ UNCHANGED << total_lines, concurrency, chan, rx, producer,
                    next_expected, buffer, consumer, hist, writerVars >>

(* Mutant: the producer keeps its Sender while it joins the tasks.         *)
ProducerKeepTx ==
    /\ producer = "scheduling"
    /\ line_index = total_lines
    /\ producer' = "joining"
    /\ UNCHANGED << total_lines, concurrency, sem, tx, chan, rx, line_index,
                    set, next_expected, buffer, consumer, hist, writerVars >>

(* drop(tx), line 262.                                                     *)
ProducerDropTx ==
    /\ producer = "scheduling"
    /\ line_index = total_lines
    /\ tx' = tx - 1
    /\ producer' = "joining"
    /\ UNCHANGED << total_lines, concurrency, sem, chan, rx, line_index, set,
                    next_expected, buffer, consumer, hist, writerVars >>

(* Mutant: the result of join_next is dropped unread.                      *)
JoinErrorIgnored(s) == FALSE

(* join_next hands back a JoinError, lines 263-264: a task of the set      *)
(* panicked.                                                               *)
JoinError(s) == \E p \in DOMAIN s : s[p].pc = "done" /\ s[p].res = "panicked"

(* while let Some(r) = set.join_next().await, lines 263-267: every task    *)
(* was joined and none gave an error.                                      *)
ProducerJoin ==
    /\ producer = "joining"
    /\ \A p \in Jobs : set[p].pc = "done"
    /\ ~JoinError(set)
    /\ producer' = "done"
    /\ UNCHANGED << total_lines, concurrency, sem, tx, chan, rx, line_index,
                    set, next_expected, buffer, consumer, hist, writerVars >>

(* engine.synth(line, voice).await, lines 248-251: succeeds or fails.      *)
TaskSynth(p) ==
    /\ set[p].pc = "synth"
    /\ \E r \in {"ok", "err"} :
         set' = [set EXCEPT ![p].pc = "send", ![p].res = r]
    /\ hist' = [hist EXCEPT !.synth_calls[p] = @ + 1]
    /\ UNCHANGED << total_lines, concurrency, sem, tx, chan, rx, line_index,
                    producer, next_expected, buffer, consumer, writerVars >>

(* let _ = tx2.send((current_audio_idx, res)).await, line 254: waits while *)
(* the channel is full; fails, and is ignored, once the Receiver is gone.  *)
(* Either way res is moved out of the task.                                *)
TaskSend(p) ==
    /\ set[p].pc = "send"
    /\ \/ /\ rx
          /\ Len(chan) < ChannelCapacity(concurrency)
          /\ chan' = Append(chan, Msg(set[p]))
          /\ hist' = [hist EXCEPT !.send_calls[p] = @ + 1,
                                  !.enqueued[p] = @ + 1]
       \/ /\ ~rx
          /\ chan' = chan
          /\ hist' = [hist EXCEPT !.send_calls[p] = @ + 1]
    /\ set' = [set EXCEPT ![p].pc = "sent", ![p].res = "none"]
    /\ UNCHANGED << total_lines, concurrency, sem, tx, rx, line_index,
                    producer, next_expected, buffer, consumer, writerVars >>

(* The task returns, lines 257-259: _permit and tx2 are dropped.           *)
TaskExit(p) ==
    /\ set[p].pc = "sent"
    /\ set' = [set EXCEPT ![p].pc = "done"]
    /\ sem' = sem + 1
    /\ tx' = tx - 1
    /\ UNCHANGED << total_lines, concurrency, chan, rx, line_index, producer,
                    next_expected, buffer, consumer, hist, writerVars >>

(* History: the position of the failed result the consumer received.      *)
Seen(msg, before) == IF msg.ok THEN before ELSE msg.idx

(* One iteration of the reorder loop, lines 273-283. A failed result       *)
(* panics at once (expect_or_log, line 274); so does a failed write (line   *)
(* 279). A panic unwinds main: the Receiver is dropped with what it holds.  *)
ConsumerRecv ==
    /\ consumer = "recv"
    /\ chan # << >>
    /\ LET msg == Head(chan) IN
       IF Unwrap(msg).panic
       THEN /\ consumer' = "panicked"
            /\ rx' = FALSE
            /\ chan' = << >>
            /\ hist' = [hist EXCEPT !.received = @ \cup {msg.idx},
                                    !.failed_idx = Seen(msg, @),
                                    !.stop = "synth"]
            /\ UNCHANGED << next_expected, buffer, mp3, disk, calls >>
       ELSE \E fuel \in 0 .. MaxFault :
            \E st \in { Drain([ buf |-> Insert(buffer, msg.idx,
                                                Unwrap(msg).value),
                                ne |-> next_expected,
                                m |-> Machine(mp3, disk, fuel),
                                calls |-> calls ]) } :
               /\ buffer' = st.buf
               /\ next_expected' = st.ne
               /\ mp3' = st.m.w
               /\ disk' = st.m.d
               /\ calls' = st.calls
               /\ IF st.m.res = "ok"
                  THEN /\ chan' = Tail(chan)
                       /\ UNCHANGED << consumer, rx >>
                       /\ hist' = [hist EXCEPT !.received = @ \cup {msg.idx},
                                               !.failed_idx = Seen(msg, @)]
                  ELSE /\ consumer' = "panicked"
                       /\ rx' = FALSE
                       /\ chan' = << >>
                       /\ hist' = [hist EXCEPT !.received = @ \cup {msg.idx},
                                               !.failed_idx = Seen(msg, @),
                                               !.stop = "write"]
    /\ UNCHANGED << total_lines, concurrency, sem, tx, line_index, producer,
                    set, finalized, ctor >>

(* rx.recv() returns None, line 273: the loop ends.                        *)
ConsumerClosed ==
    /\ consumer = "recv"
    /\ RecvNone(tx, chan)
    /\ consumer' = "join"
    /\ UNCHANGED << total_lines, concurrency, sem, tx, chan, rx, line_index,
                    producer, set, next_expected, buffer, hist, writerVars >>

(* producer.await, then mp3.finalize(), lines 285-290.                     *)
ConsumerFinalize ==
    /\ consumer = "join"
    /\ producer = "done"
    /\ \E fuel \in 0 .. MaxFault :
         LET m == finish_current(Machine(mp3, disk, fuel)) IN
         /\ mp3' = m.w
         /\ disk' = m.d
         /\ finalized' = TRUE
         /\ IF m.res = "ok"
            THEN /\ consumer' = "finished"
                 /\ UNCHANGED << rx, chan, hist >>
            ELSE /\ consumer' = "panicked"
                 /\ rx' = FALSE
                 /\ chan' = << >>
                 /\ hist' = [hist EXCEPT !.stop = "finalize"]
    /\ UNCHANGED << total_lines, concurrency, sem, tx, line_index, producer,
                    set, next_expected, buffer, ctor, calls >>

Next ==
    \/ ProducerSpawn
    \/ ProducerDropTx
    \/ ProducerJoin
    \/ \E p \in Jobs : TaskSynth(p)
    \/ \E p \in Jobs : TaskSend(p)
    \/ \E p \in Jobs : TaskExit(p)
    \/ ConsumerRecv
    \/ ConsumerClosed
    \/ ConsumerFinalize

Spec == Init /\ [][Next]_vars

(* The pipeline under a fair scheduler: the tokio runtime does not stop    *)
(* while the producer, a job task or the main task can take a step.        *)
SpecFair == Init /\ [][Next]_vars /\ WF_vars(Next)

-----------------------------------------------------------------------------
(* The pipeline when a job task may panic inside engine.synth: the task    *)
(* unwinds without sending, and join_next reports it.                      *)

(* engine.synth panics, lines 248-250: the task unwinds, dropping _permit  *)
(* and tx2; nothing is sent for its position.                              *)
TaskPanic(p) ==
    /\ set[p].pc = "synth"
    /\ set' = [set EXCEPT ![p].pc = "done", ![p].res = "panicked"]
    /\ sem' = sem + 1
    /\ tx' = tx - 1
    /\ hist' = [hist EXCEPT !.synth_calls[p] = @ + 1]
    /\ UNCHANGED << total_lines, concurrency, chan, rx, line_index, producer,
                    next_expected, buffer, consumer, writerVars >>

(* r?? on a JoinError, line 264: the producer returns Err; its JoinSet is  *)
(* dropped, which aborts the tasks still in it.                            *)
ProducerJoinFailed ==
    /\ producer = "joining"
    /\ JoinError(set)
    /\ producer' = "failed"
    /\ UNCHANGED << total_lines, concurrency, sem, tx, chan, rx, line_index,
                    set, next_expected, buffer, consumer, hist, writerVars >>

(* A task aborted by the drop of the JoinSet is cancelled at an await      *)
(* (synth, line 250, or send, line 254): _permit, tx2 and its result are   *)
(* dropped. A task the abort does not catch at an await runs on.           *)
TaskAbort(p) ==
    /\ producer = "failed"
    /\ set[p].pc \in {"synth", "send"}
    /\ set' = [set EXCEPT ![p].pc = "done", ![p].res = "aborted"]
    /\ sem' = sem + 1
    /\ tx' = tx - 1
    /\ UNCHANGED << total_lines, concurrency, chan, rx, line_index, producer,
                    next_expected, buffer, consumer, hist, writerVars >>

(* producer.await.unwrap().expect_or_log(..), lines 285-288, on the        *)
(* producer's Err: main panics; finalize (line 290) is not reached.        *)
ConsumerJoinFailed ==
    /\ consumer = "join"
    /\ producer = "failed"
    /\ consumer' = "panicked"
    /\ rx' = FALSE
    /\ chan' = << >>
    /\ hist' = [hist EXCEPT !.stop = "producer"]
    /\ UNCHANGED << total_lines, concurrency, sem, tx, line_index, producer,
                    set, next_expected, buffer, writerVars >>

NextCrash ==
    \/ Next
    \/ \E p \in Jobs : TaskPanic(p)
    \/ ProducerJoinFailed
    \/ \E p \in Jobs : TaskAbort(p)
    \/ ConsumerJoinFailed

(* Job counts explored with panicking tasks.                               *)
InitCrash == Init /\ total_lines <= MaxJobs - 2

SpecCrash == InitCrash /\ [][NextCrash]_vars

-----------------------------------------------------------------------------
(* Mp3Splitter on its own: any sequence of write calls, then finalize.     *)

InitWriter ==
    /\ total_lines = 0
    /\ concurrency = 1
    /\ sem = Permits(1)
    /\ tx = 1
    /\ chan = << >>
    /\ rx = TRUE
    /\ line_index = 0
    /\ producer = "scheduling"
    /\ set = << >>
    /\ next_expected = 0
    /\ buffer = << >>
    /\ consumer = "recv"
    /\ hist = [ synth_calls |-> << >>, send_calls |-> << >>,
                enqueued |-> << >>, received |-> {},
                stop |-> "none", failed_idx |-> -1 ]
    /\ \E ch \in {1, 2}, k \in 1 .. MaxFramesPerFile :
         /\ mp3 = Mp3SplitterNew(ch, k)
         /\ ctor = Built(ch)
    /\ disk = << >>
    /\ finalized = FALSE
    /\ calls = << >>

(* Sample counts of a write call explored.                                 *)
CallSizes == 0 .. 4

(* I/O outcomes explored for the next call: faults strike in at most one   *)
(* call of a run; the calls after a failed one meet none.                  *)
Failures == Cardinality({i \in 1 .. Len(calls) : calls[i].res # "ok"})
Fuels == IF Failures = 0 THEN 0 .. MaxFault ELSE {0}

Call(n, samples, m) ==
    [ pos |-> n, samples |-> samples, took |-> n, res |-> m.res ]

(* A call of write_f32_interleaved with n samples.                         *)
WriteInterleaved ==
    /\ ~finalized
    /\ Len(calls) < MaxCalls
    /\ \E n \in CallSizes, fuel \in Fuels :
         LET samples == Audio(Len(calls), n)
             m == write_f32_interleaved(Machine(mp3, disk, fuel), samples)
         IN /\ mp3' = m.w
            /\ disk' = m.d
            /\ calls' = Append(calls, Call(Len(calls), samples, m))
    /\ UNCHANGED << pipeVars, finalized, ctor >>

(* A call of write_f32_mono with n samples.                                *)
WriteMono ==
    /\ ~finalized
    /\ Len(calls) < MaxCalls
    /\ \E n \in CallSizes, fuel \in Fuels :
         LET samples == Audio(Len(calls), n)
             m == write_f32_mono(Machine(mp3, disk, fuel), samples)
         IN /\ mp3' = m.w
            /\ disk' = m.d
            /\ calls' = Append(calls, Call(Len(calls), samples, m))
    /\ UNCHANGED << pipeVars, finalized, ctor >>

(* finalize(self), lines 190-192.                                          *)
Finalize ==
    /\ ~finalized
    /\ \E fuel \in Fuels :
         LET m == finish_current(Machine(mp3, disk, fuel)) IN
         /\ mp3' = m.w
         /\ disk' = m.d
         /\ hist' = IF m.res = "ok" THEN hist
                    ELSE [hist EXCEPT !.stop = "finalize"]
    /\ finalized' = TRUE
    /\ UNCHANGED << total_lines, concurrency, sem, tx, chan, rx, line_index,
                    producer, set, next_expected, buffer, consumer, ctor,
                    calls >>

NextWriter == WriteInterleaved \/ WriteMono \/ Finalize

SpecWriter == InitWriter /\ [][NextWriter]_vars

-----------------------------------------------------------------------------
(* Mp3Splitter::new on its own: the arguments are drawn, then the call.    *)

SampleRates == {1, 2}
Durations == {0, 1, 499999999, 500000000, 500000001, 999999999, 1000000000}

InitNew ==
    /\ InitPipeline
    /\ total_lines = 0
    /\ concurrency = 1
    /\ \E sr \in SampleRates, ch \in {1, 2}, v \in BOOLEAN, ns \in Durations :
         ctor = [ config |-> [sample_rate |-> sr, channels |-> ch, valid |-> v],
                  nanos |-> ns, res |-> "pending" ]
    /\ mp3 = NoWriter
    /\ disk = << >>
    /\ finalized = FALSE
    /\ calls = << >>

New ==
    /\ ctor.res = "pending"
    /\ LET r == Mp3Splitter_new(ctor.config, ctor.nanos) IN
       /\ ctor' = [ctor EXCEPT !.res = r.res]
       /\ mp3' = r.w
    /\ UNCHANGED << pipeVars, disk, finalized, calls >>

NextNew == New

SpecNew == InitNew /\ [][NextNew]_vars

-----------------------------------------------------------------------------
(* Properties of the pipeline (checked under Spec).                        *)

(* The consumer left the reorder loop because recv returned None.          *)
SawClosed == consumer \in {"join", "finished"} \/ hist.stop = "finalize"

(* Jobs known to have failed: the result is still in its task, queued in   *)
(* the channel, or was the one the consumer stopped on.                    *)
FailedJobs ==
    {p \in Jobs : set[p].res = "err"}
    \cup {chan[i].took : i \in {j \in 1 .. Len(chan) : ~chan[j].ok}}
    \cup {p \in Jobs : p = hist.failed_idx}

(* C1: the write calls of the reorder loop are made in ascending, gapless  *)
(* position order: the k-th call (counting from 0) is for position k and   *)
(* carries the samples synthesized from line k; when the loop ends by      *)
(* channel closure every position has been written exactly once.           *)
C1_OrderedWrites ==
    /\ \A k \in 1 .. Len(calls) :
         /\ calls[k].pos = k - 1
         /\ calls[k].took = k - 1
         /\ calls[k].samples = Audio(k - 1, AudioFrames(k - 1))
    /\ SawClosed => Len(calls) = total_lines

(* C1 witness: positions were written while a later result, arrived out of *)
(* order, is held back in the buffer.                                      *)
C1_Witness ==
    /\ Len(calls) >= 2
    /\ \E q \in DOMAIN buffer : q > next_expected
    /\ consumer = "recv"

(* C2 as stated: at most `concurrency` jobs hold a permit.                 *)
C2_AtMostConcurrency == Cardinality(Running) <= concurrency

(* C2 amended: the jobs holding a permit are at most concurrency * 2, the  *)
(* permits of the semaphore; every permit is free or held by one running   *)
(* job, so with none free the producer cannot spawn.                       *)
C2_AtMostPermits ==
    /\ Cardinality(Running) <= Permits(concurrency)
    /\ sem + Cardinality(Running) = Permits(concurrency)

(* C2 witness: all permits are held and a further job waits to start.      *)
C2_Witness ==
    /\ Cardinality(Running) = Permits(concurrency)
    /\ producer = "scheduling"
    /\ line_index < total_lines

(* C3 as stated: when the consumer stops on the failed job p, next_expected *)
(* is p and the positions 0..p-1 have been written.                        *)
C3_FailureAtItsTurn ==
    hist.stop = "synth" =>
        /\ next_expected = hist.failed_idx
        /\ Len(calls) = hist.failed_idx

(* C4: once job p has failed, no write call was made for position p or a   *)
(* later one, nor with samples of line p or a later one, and no file holds *)
(* such samples.                                                           *)
C4_NothingFromFailedOn ==
    \A p \in FailedJobs :
        /\ \A k \in 1 .. Len(calls) : calls[k].pos < p /\ calls[k].took < p
        /\ \A f \in 1 .. Len(disk) :
             \A i \in 1 .. Len(disk[f].frames) : disk[f].frames[i][1] < p
        /\ next_expected <= p

(* C4 witness: job p >= 1 failed, earlier positions were written and the   *)
(* result of a later job is held in the buffer.                            *)
C4_Witness ==
    \E p \in FailedJobs :
        /\ p >= 1
        /\ Len(calls) >= 1
        /\ \E q \in DOMAIN buffer : q > p

(* C5 as stated: a job whose task is past its send was synthesized once    *)
(* and its result was put on the channel once.                             *)
C5_ExactlyOnceDelivered ==
    \A p \in Jobs :
        set[p].pc \in {"sent", "done"} =>
            /\ hist.synth_calls[p] = 1
            /\ hist.send_calls[p] = 1
            /\ hist.enqueued[p] = 1

(* C5 amended: synthesis and send happen at most once per job, exactly     *)
(* once for a task past its send; every queued message carries the position *)
(* of the line it was synthesized from; no position is queued twice; and   *)
(* while the Receiver exists every result sent is queued or was received.  *)
(* Once the consumer has stopped, a send fails and its result is dropped.  *)
C5_OnceWhileReceiving ==
    /\ \A p \in Jobs :
         /\ hist.synth_calls[p] <= 1
         /\ hist.send_calls[p] <= 1
         /\ hist.enqueued[p] <= hist.send_calls[p]
         /\ set[p].pc \in {"unspawned", "synth"} => hist.send_calls[p] = 0
         /\ set[p].pc \in {"send", "sent", "done"} => hist.synth_calls[p] = 1
         /\ set[p].pc \in {"sent", "done"} =>
              /\ hist.send_calls[p] = 1
              /\ hist.enqueued[p] = 1 \/ ~rx
         /\ rx => (hist.enqueued[p] = 1 <=>
                     \/ p \in hist.received
                     \/ \E i \in 1 .. Len(chan) : chan[i].idx = p)
    /\ \A i \in 1 .. Len(chan) :
         /\ chan[i].idx = chan[i].took
         /\ chan[i].idx \notin hist.received
         /\ \A j \in 1 .. Len(chan) : chan[i].idx = chan[j].idx => i = j

(* C5 witness: the channel is full and a task with a result waits to send. *)
C5_Witness ==
    /\ rx
    /\ Len(chan) = ChannelCapacity(concurrency)
    /\ \E p \in Jobs : set[p].pc = "send"

(* C6: when recv has returned None, every job was scheduled, the producer  *)
(* dropped its Sender, every task has finished and every result was        *)
(* received.                                                               *)
C6_ClosedAfterAll ==
    SawClosed =>
        /\ line_index = total_lines
        /\ producer # "scheduling"
        /\ \A p \in Jobs : set[p].pc = "done"
        /\ hist.received = Jobs
        /\ chan = << >>

(* C6 witness: the loop ended by closure after several jobs.               *)
C6_Witness == consumer = "join" /\ total_lines >= 2

(* C7 as stated: the reorder map holds at most permits plus channel        *)
(* capacity entries.                                                       *)
C7_PendingBounded ==
    Cardinality(DOMAIN buffer)
        <= Permits(concurrency) + ChannelCapacity(concurrency)

-----------------------------------------------------------------------------
(* Properties of the writer (checked under SpecWriter).                    *)

CeilDiv(a, b) == (a + b - 1) \div b

(* Frames carried by the write calls so far, and frames held by a file.    *)
RECURSIVE FramesFed(_)
FramesFed(n) ==
    IF n = 0 THEN 0
    ELSE FramesFed(n - 1) + Len(calls[n].samples) \div mp3.channels

FileFrames(f) == Len(disk[f].frames) \div mp3.channels

(* No operation of the run returned an error.                              *)
FaultFree == Failures = 0 /\ hist.stop = "none"

(* C8 as stated: after finalize the number of files is ceil(S / K).        *)
C8_SegmentCount ==
    (finalized /\ FaultFree) =>
        Len(disk) = CeilDiv(FramesFed(Len(calls)), mp3.frames_per_file)

(* C9: written_frames never exceeds frames_per_file; no encoder is handed  *)
(* a frame while its segment's written_frames is at frames_per_file; and   *)
(* absent I/O faults no file holds more than frames_per_file frames, the   *)
(* open one holding exactly written_frames.                                *)
C9_CapacityBound ==
    /\ mp3.written_frames <= mp3.frames_per_file
    /\ \A f \in 1 .. Len(disk) : ~disk[f].over
    /\ FaultFree =>
         /\ \A f \in 1 .. Len(disk) : FileFrames(f) <= mp3.frames_per_file
         /\ mp3.enc => FileFrames(Len(disk)) = mp3.written_frames

(* C9 witness: a segment was filled to capacity, a rotation followed, and  *)
(* the next segment holds frames.                                          *)
C9_Witness ==
    /\ FaultFree
    /\ Len(disk) >= 2
    /\ FileFrames(1) = mp3.frames_per_file
    /\ FileFrames(2) >= 1

(* C10: absent I/O faults, after calls carrying S > 0 frames in any split, *)
(* there are n = ceil(S / K) files, each but the last holding K frames and *)
(* the last S - K * (n - 1).                                               *)
C10_SplitIndependent ==
    LET S == FramesFed(Len(calls))
        K == mp3.frames_per_file
        n == CeilDiv(S, K)
    IN (FaultFree /\ S > 0) =>
         /\ Len(disk) = n
         /\ \A f \in 1 .. Len(disk) :
              FileFrames(f) = IF f < n THEN K ELSE S - K * (n - 1)

(* C10 witness: capacity 3 and mono calls of 1, 3 and 1 frames, the second *)
(* spanning the boundary: two segments.                                    *)
C10_Witness ==
    /\ FaultFree
    /\ mp3.frames_per_file = 3 /\ mp3.channels = 1
    /\ Len(calls) = 3
    /\ Len(calls[1].samples) = 1
    /\ Len(calls[2].samples) = 3
    /\ Len(calls[3].samples) = 1
    /\ Len(disk) = 2

(* The writer has no open segment.                                         *)
Closed == ~mp3.out /\ ~mp3.enc

(* C11: on a writer with no open segment the finish step is a no-op: it    *)
(* succeeds, runs no fallible operation, and leaves files, index and       *)
(* written_frames as they are; a finish step run right after another one   *)
(* is such a no-op, so no file ever gets the trailing bytes twice; and a   *)
(* finalized writer has no open segment.                                   *)
C11_FinalizeNoOp ==
    /\ Closed =>
         \A fuel \in 0 .. MaxFault :
            finish_current(Machine(mp3, disk, fuel)) = Machine(mp3, disk, fuel)
    /\ \A fuel \in 0 .. MaxFault :
         LET m1 == finish_current(Machine(mp3, disk, fuel)) IN
         /\ ~m1.w.out /\ ~m1.w.enc
         /\ \A again \in 0 .. MaxFault :
              finish_current(Machine(m1.w, m1.d, again))
                 = Machine(m1.w, m1.d, again)
         /\ \A f \in 1 .. Len(m1.d) : m1.d[f].tails <= 1
    /\ \A f \in 1 .. Len(disk) : disk[f].tails <= 1
    /\ finalized => Closed

(* C11 witness: a writer that was never written to has been finalized:     *)
(* no error, no file.                                                      *)
C11_Witness ==
    /\ finalized
    /\ calls = << >>
    /\ disk = << >>
    /\ hist.stop = "none"
    /\ mp3.index = 0 /\ mp3.written_frames = 0

(* The last write call of the run.                                         *)
LastCall == calls[Len(calls)]

(* C12: a write call whose sample count is not a multiple of the channel   *)
(* count returns an error and changes neither the writer's fields (index,  *)
(* written_frames, out, enc) nor any file: no segment is opened and no     *)
(* sample reaches an encoder.                                              *)
C12_BadLengthRejected ==
    [][ ( /\ Len(calls') = Len(calls) + 1
          /\ Len(calls'[Len(calls')].samples) % mp3.channels # 0 )
        => ( /\ calls'[Len(calls')].res = "err"
             /\ mp3' = mp3
             /\ disk' = disk ) ]_vars

(* C12 witness: a stereo writer, still closed, was given 3 samples: the    *)
(* call failed, no file exists and index is still 0.                       *)
C12_Witness ==
    /\ mp3.channels = 2
    /\ Len(calls) = 1
    /\ Len(LastCall.samples) = 3
    /\ LastCall.res = "err"
    /\ disk = << >>
    /\ Closed
    /\ mp3.index = 0 /\ mp3.written_frames = 0

-----------------------------------------------------------------------------
(* Properties of the constructor (checked under SpecNew).                  *)

(* floor(v / d), by what it means: the f with f * d <= v < (f + 1) * d.    *)
FloorOf(v, d) == CHOOSE f \in 0 .. (U64_MAX + 1) : f * d <= v /\ v - f * d < d

(* The capacity the claim names for the constructor's arguments.           *)
Capacity == FloorOf(ctor.nanos * ctor.config.sample_rate, NANOS_PER_SEC)

(* Construction left no file and no open encoder behind.                   *)
NothingOpened == disk = << >> /\ Closed /\ mp3.index = 0

(* C13 as stated: construction fails exactly when the capacity is 0 or     *)
(* beyond the 64-bit range; on success frames_per_file is the capacity;    *)
(* either way no file is created and no encoder opened.                    *)
C13_FailsOnlyOnCapacity ==
    ctor.res \in {"ok", "err"} =>
        /\ (ctor.res = "err") <=> (Capacity = 0 \/ Capacity > U64_MAX)
        /\ ctor.res = "ok" => mp3.frames_per_file = Capacity
        /\ NothingOpened

(* C13, amended: construction fails exactly when the configuration does    *)
(* not validate or the capacity is 0 or beyond the 64-bit range; on        *)
(* success frames_per_file is the capacity; either way no file is created  *)
(* and no encoder opened.                                                  *)
C13_Capacity ==
    ctor.res \in {"ok", "err"} =>
        /\ (ctor.res = "err")
              <=> (~ctor.config.valid \/ Capacity = 0 \/ Capacity > U64_MAX)
        /\ ctor.res = "ok" => mp3.frames_per_file = Capacity
        /\ NothingOpened

(* C13 witness: 999,999,999 ns at 2 Hz is 1.999... frames: the writer is   *)
(* built with a capacity of 1 frame, rounded down, and nothing is opened.  *)
C13_Witness ==
    /\ ctor.res = "ok"
    /\ ctor.nanos = 999999999 /\ ctor.config.sample_rate = 2
    /\ mp3.frames_per_file = 1
    /\ NothingOpened

-----------------------------------------------------------------------------
(* More properties of the writer (checked under SpecWriter).               *)

(* The files that exist, in the order of their creation.                   *)
IsCreated(f) == f.created
Files == SelectSeq(disk, IsCreated)

(* C14 as stated: the k-th segment opened is file index k (from 0), also   *)
(* in runs where opening a segment failed.                                 *)
C14_KthFileIsIndexK ==
    \A k \in 1 .. Len(Files) : Files[k].index = k - 1

(* C14, amended: every attempt to open a segment takes the next index,     *)
(* from 0, whether or not its file gets created: the k-th attempt uses     *)
(* index k, the writer's index is the number of attempts, so the files     *)
(* that exist carry strictly increasing indices, none twice; and in a run  *)
(* without a failed operation the k-th file has index k.                   *)
C14_IndexPerOpen ==
    /\ \A k \in 1 .. Len(disk) : disk[k].index = k - 1
    /\ mp3.index = Len(disk)
    /\ \A j, k \in 1 .. Len(Files) : j < k => Files[j].index < Files[k].index
    /\ FaultFree => \A k \in 1 .. Len(Files) : Files[k].index = k - 1

(* C14 witness: the first File::create failed, the call after it opened a  *)
(* segment: the only file that exists has index 1.                         *)
C14_Witness ==
    /\ Len(disk) = 2
    /\ ~disk[1].created
    /\ disk[2].created /\ disk[2].enc = "live" /\ disk[2].index = 1
    /\ Len(Files) = 1
    /\ mp3.index = 2

-----------------------------------------------------------------------------
(* Properties of the pipeline with panicking tasks (checked under          *)
(* SpecCrash).                                                             *)

(* recv returned None: the reorder loop was left by channel closure.       *)
LoopEndedByClosure == SawClosed \/ hist.stop = "producer"

(* Results the reorder loop holds back, or positions it never reached.     *)
Leftover == DOMAIN buffer # {} \/ next_expected < total_lines

(* C15: when the reorder loop ends by channel closure with entries left in *)
(* the buffer or with next_expected below total_lines, a task of the set   *)
(* panicked, so the producer does not finish with Ok; the main task is     *)
(* waiting for the producer or has panicked on its error; finalize has     *)
(* not run and the run is never reported as finished.                      *)
C15_LeftoverIsFatal ==
    /\ (LoopEndedByClosure /\ Leftover) =>
         /\ \E p \in Jobs : set[p].res = "panicked"
         /\ producer # "done"
         /\ ~finalized
         /\ consumer = "join" \/ (consumer = "panicked" /\ hist.stop = "producer")
    /\ hist.stop = "producer" => (producer = "failed" /\ ~finalized)

(* C15 witness: the loop ended by closure with a result still held in the  *)
(* buffer, and main panicked on the producer's error without finalizing.   *)
C15_Witness ==
    /\ consumer = "panicked"
    /\ hist.stop = "producer"
    /\ DOMAIN buffer # {}
    /\ next_expected < total_lines
    /\ ~finalized

(* The open segment is exactly full.                                       *)
Full == mp3.enc /\ mp3.written_frames = mp3.frames_per_file

(* C16: in runs without a failed operation, (a) a write call that leaves   *)
(* the frames fed at a positive multiple of K ends with the last segment   *)
(* open and full, and the number of files is S / K: no file was created    *)
(* for frames to come; (b) on a full segment, a call of zero frames        *)
(* changes nothing, and a call of at least one frame finishes that         *)
(* segment as it stands and puts its first frames into a new file;         *)
(* (c) a call with more frames than the open segment has room for creates  *)
(* the next file within that same call.                                    *)
C16_LazyRotation ==
    [][ ( /\ Len(calls') = Len(calls) + 1
          /\ FaultFree' )
        => LET K == mp3.frames_per_file
               n == Len(calls'[Len(calls')].samples) \div mp3.channels
               S == FramesFed(Len(calls))'
               last == Len(disk)
           IN /\ (S > 0 /\ S % K = 0) =>
                    /\ Full'
                    /\ Len(disk') = S \div K
                    /\ disk'[Len(disk')].enc = "live"
              /\ (Full /\ n = 0) => (mp3' = mp3 /\ disk' = disk)
              /\ (Full /\ n >= 1) =>
                    /\ Len(disk') > last
                    /\ disk'[last].enc = "finished"
                    /\ disk'[last].frames = disk[last].frames
                    /\ Len(disk'[last + 1].frames) >= mp3.channels
              /\ (mp3.enc /\ n > K - mp3.written_frames) => Len(disk') > last
      ]_vars

(* C16 witness: capacity 2; a call of 2 frames filled segment 0 and left   *)
(* it open, a call of zero frames changed nothing, and a call of 1 frame   *)
(* rotated: two files, the second holding that frame.                      *)
C16_Witness ==
    /\ FaultFree
    /\ mp3.frames_per_file = 2 /\ mp3.channels = 1
    /\ Len(calls) = 3
    /\ Len(calls[1].samples) = 2
    /\ Len(calls[2].samples) = 0
    /\ Len(calls[3].samples) = 1
    /\ Len(disk) = 2
    /\ FileFrames(1) = 2 /\ FileFrames(2) = 1
    /\ disk[1].enc = "finished" /\ disk[2].enc = "live"

(* Entries whose encoder is live.                                          *)
Live == {f \in 1 .. Len(disk) : disk[f].enc = "live"}

(* C17: at most one segment is open at any time, and it is the last one    *)
(* created; when a file is created the segment before it is no longer      *)
(* open, and in runs without a failed operation that segment's encoder     *)
(* was finished, its tail written once and its file flushed by then;       *)
(* every segment starts with an encoder that was fed nothing, and no       *)
(* encoder is fed after it was finished.                                   *)
C17_FinishBeforeNext ==
    /\ Cardinality(Live) <= 1
    /\ Live \subseteq {Len(disk)}
    /\ mp3.enc <=> Live # {}
    /\ \A f \in 1 .. Len(disk) :
         /\ disk[f].created => disk[f].prior.enc # "live"
         /\ ~disk[f].late
         /\ disk[f].enc = "none" => disk[f].frames = << >>
         /\ (FaultFree /\ f > 1) =>
              disk[f].prior = [enc |-> "finished", tails |-> 1,
                               flushed |-> TRUE]
         /\ (FaultFree /\ f < Len(disk)) =>
              /\ disk[f].enc = "finished"
              /\ disk[f].tails = 1
              /\ disk[f].flushed

(* C17 witness: two rotations in one run: segments 0 and 1 are finished,   *)
(* tailed and flushed, segment 2 is open and holds frames.                 *)
C17_Witness ==
    /\ FaultFree
    /\ Len(disk) = 3
    /\ disk[1].enc = "finished" /\ disk[2].enc = "finished"
    /\ disk[3].enc = "live" /\ FileFrames(3) >= 1
    /\ disk[3].prior.enc = "finished"

-----------------------------------------------------------------------------
(* Termination of the pipeline (checked under SpecFair).                   *)

(* Some job's synthesis failed, or the writer returned an error.           *)
SomethingFailed == FailedJobs # {} \/ hist.stop # "none"

(* The run completed: all jobs scheduled, every task over, the channel     *)
(* closed and empty, all positions written, the writer finalized.          *)
Completed ==
    /\ line_index = total_lines
    /\ producer = "done"
    /\ \A p \in Jobs : set[p].pc = "done"
    /\ sem = Permits(concurrency)
    /\ tx = 0 /\ chan = << >>
    /\ next_expected = total_lines
    /\ buffer = << >>
    /\ Len(calls) = total_lines
    /\ consumer = "finished"
    /\ finalized

(* C18: under fair scheduling every run reaches completion unless a        *)
(* synthesis or a writer operation fails in it, for every job count and    *)
(* concurrency explored: a run in which every job succeeds never stops     *)
(* short of completion.                                                    *)
C18_Terminates == <>(Completed \/ SomethingFailed)

(* C18 witness: a run of the largest job count completed with no failure.  *)
C18_Witness ==
    /\ Completed
    /\ ~SomethingFailed
    /\ total_lines = MaxJobs

(* The samples fed to the encoders of the first n entries of disk, and the *)
(* samples of the first n write calls, each in order.                      *)
RECURSIVE Encoded(_)
Encoded(n) == IF n = 0 THEN << >> ELSE Encoded(n - 1) \o disk[n].frames

RECURSIVE Given(_)
Given(n) == IF n = 0 THEN << >> ELSE Given(n - 1) \o calls[n].samples

(* C19: in runs without a failed operation the samples handed to the       *)
(* encoders, read file after file in index order, are the samples of the   *)
(* write calls read call after call: nothing dropped, doubled or moved.    *)
C19_FramesConserved ==
    FaultFree => Encoded(Len(disk)) = Given(Len(calls))

(* C19 witness: capacity 1; one call of 3 frames crossed two boundaries    *)
(* and a second call added a frame: four files of one frame each.          *)
C19_Witness ==
    /\ FaultFree
    /\ mp3.frames_per_file = 1 /\ mp3.channels = 1
    /\ Len(calls) = 2
    /\ Len(calls[1].samples) = 3
    /\ Len(calls[2].samples) = 1
    /\ Len(disk) = 4
    /\ Encoded(4) = calls[1].samples \o calls[2].samples

(* C20: between writer operations, also after one that returned an error,  *)
(* out and enc are both present or both absent; no write call and no       *)
(* finish step made so far, nor any that could be made next whatever       *)
(* fails in it, ends in the "encoder exists without writer" error or in a  *)
(* panic on a missing out or enc.                                          *)
C20_OutAndEncTogether ==
    /\ mp3.out <=> mp3.enc
    /\ \A i \in 1 .. Len(calls) : calls[i].res \in {"ok", "err"}
    /\ \A fuel \in 0 .. MaxFault :
         /\ LET m == finish_current(Machine(mp3, disk, fuel)) IN
            /\ m.res \in {"ok", "err"}
            /\ m.w.out <=> m.w.enc
         /\ \A n \in CallSizes :
              LET m == write_f32_interleaved(Machine(mp3, disk, fuel),
                                             Audio(Len(calls), n)) IN
              /\ m.res \in {"ok", "err"}
              /\ m.w.out <=> m.w.enc

(* C20 witness: Mp3Encoder::new failed after the file was created: the     *)
(* call returned an error, the file exists without an encoder, and the     *)
(* writer holds neither out nor enc.                                       *)
C20_Witness ==
    /\ Len(calls) >= 1
    /\ LastCall.res = "err"
    /\ Len(disk) >= 1
    /\ disk[Len(disk)].created
    /\ disk[Len(disk)].enc = "none"
    /\ ~mp3.out /\ ~mp3.enc

=============================================================================
